---- MODULE Spec2Model ----
(***************************************************************************)
(* Model of agent/ui_endpoint.go: the metrics proxy handler                *)
(* (HTTPHandlers.UIMetricsProxy) running concurrently with reloads of its  *)
(* configuration, the service aggregator (summarizeServices with           *)
(* modifySummaryForGatewayService), and the RPC fetch with its retry in    *)
(* UINodes, UINodeInfo, UIServices and UIGatewayServicesNodes.             *)
(*                                                                         *)
(* Strings whose characters matter (URLs, paths) are sequences of          *)
(* one-character strings.  The modelled alphabet has lower-case letters,   *)
(* digits and the characters / . : ? = - ; it has no '%', '#', '@', '['    *)
(* or control bytes, so percent-escaping and unescaping leave every        *)
(* modelled string as it is.                                               *)
(***************************************************************************)
EXTENDS Integers, Sequences, FiniteSets, TLC

VARIABLES
    uiEnabled,        \* s.IsUIEnabled(): fixed at agent startup
    metricsProxyCfg,  \* s.metricsProxyCfg (atomic.Value), replaced by reloads
    pc,               \* position of the UIMetricsProxy invocation
    req,              \* the inbound request: [Path, RawQuery]
    cfg,              \* the handler's local cfg (the loaded snapshot)
    u,                \* the handler's local u (*url.URL)
    result,           \* the error class returned, "OK" or "none"
    contacted,        \* whether the reverse proxy sent a request to the backend
    target,           \* the URL the backend was contacted at
    loads,            \* number of metricsProxyCfg.Load() calls of this invocation
    cfgSeen,          \* the value of metricsProxyCfg when UIMetricsProxy was entered
    dump,             \* summarizeServices: the dump argument
    idx,              \* index of the next record of the range loop over dump
    services,         \* the local services ([]structs.ServiceID)
    summary,          \* the local summary (map[structs.ServiceID]*ServiceSummary)
    output,           \* the returned []*ServiceSummary
    phase,            \* "scan" in the loop, "done" after the return, "off"
    handler,          \* the UI handler making the RPC fetch
    httpReq,          \* what the handler's request parses to
    args,             \* the handler's args: [AllowStale]
    fpc,              \* position of the handler: "idle", "RPC", "returned", "off"
    rpcs,             \* the s.agent.RPC calls made: [AllowStale, err] each
    ferr              \* the error the handler returned (NoError: nil)

proxyVars == <<uiEnabled, metricsProxyCfg, pc, req, cfg, u, result, contacted,
               target, loads, cfgSeen>>

aggVars == <<dump, idx, services, summary, output, phase>>

fetchVars == <<handler, httpReq, args, fpc, rpcs, ferr>>

-----------------------------------------------------------------------------
(* Bounds *)

\* longest generated sub-path, not counting its leading "/"
MaxSubPathLen == 3

\* longest dump given to summarizeServices
MaxDumpLen == 2

-----------------------------------------------------------------------------
(* Strings *)

Letters == {"a", "b", "c", "d", "e", "f", "g", "h", "i", "j", "k", "l", "m",
            "n", "o", "p", "q", "r", "s", "t", "u", "v", "w", "x", "y", "z"}

Digits == {"0", "1", "2", "3", "4", "5", "6", "7", "8", "9"}

\* strings.HasPrefix
HasPrefix(s, prefix) ==
    Len(prefix) <= Len(s) /\ SubSeq(s, 1, Len(prefix)) = prefix

\* strings.TrimPrefix
TrimPrefix(s, prefix) ==
    IF HasPrefix(s, prefix) THEN SubSeq(s, Len(prefix) + 1, Len(s)) ELSE s

\* strings.IndexByte, 1-based, 0 when c does not occur
IndexByte(s, c) ==
    LET hits == {i \in 1..Len(s) : s[i] = c}
    IN  IF hits = {} THEN 0 ELSE CHOOSE i \in hits : \A j \in hits : i <= j

\* strings.LastIndexByte, 1-based, 0 when c does not occur
LastIndexByte(s, c) ==
    LET hits == {i \in 1..Len(s) : s[i] = c}
    IN  IF hits = {} THEN 0 ELSE CHOOSE i \in hits : \A j \in hits : i >= j

\* the segments of p between its "/" separators (strings.Split(p, "/"))
RECURSIVE SplitSlash(_)
SplitSlash(p) ==
    LET i == IndexByte(p, "/")
    IN  IF i = 0 THEN <<p>>
        ELSE <<SubSeq(p, 1, i - 1)>> \o SplitSlash(SubSeq(p, i + 1, Len(p)))

\* strings.Join(segs, "/")
RECURSIVE JoinSlash(_)
JoinSlash(segs) ==
    IF segs = <<>> THEN <<>>
    ELSE IF Len(segs) = 1 THEN segs[1]
    ELSE segs[1] \o <<"/">> \o JoinSlash(Tail(segs))

\* the sequences over alphabet of length at most n
RECURSIVE SeqsUpTo(_, _)
SeqsUpTo(alphabet, n) ==
    IF n = 0 THEN {<<>>}
    ELSE LET shorter == SeqsUpTo(alphabet, n - 1)
         IN  shorter \cup {Append(s, c) : s \in shorter, c \in alphabet}

-----------------------------------------------------------------------------
(* path.Clean *)

\* One pass over the segments of a path: "" and "." are dropped, ".." removes
\* the segment before it, is dropped at the root of a rooted path and is kept
\* at the front of a relative one.
RECURSIVE CleanSegs(_, _, _)
CleanSegs(segs, out, rooted) ==
    IF segs = <<>> THEN out
    ELSE LET seg == Head(segs)
             rest == Tail(segs)
         IN  IF seg = <<>> \/ seg = <<".">> THEN CleanSegs(rest, out, rooted)
             ELSE IF seg = <<".", ".">>
                  THEN IF out # <<>> /\ out[Len(out)] # <<".", ".">>
                       THEN CleanSegs(rest, SubSeq(out, 1, Len(out) - 1), rooted)
                       ELSE IF rooted THEN CleanSegs(rest, out, rooted)
                       ELSE CleanSegs(rest, Append(out, seg), rooted)
             ELSE CleanSegs(rest, Append(out, seg), rooted)

\* path.Clean left out: the path stays as parsed
CleanSkipped(p) == p


Clean(p) ==
    IF p = <<>> THEN <<".">>
    ELSE LET rooted == p[1] = "/"
             body == JoinSlash(CleanSegs(SplitSlash(p), <<>>, rooted))
         IN  IF rooted THEN <<"/">> \o body
             ELSE IF body = <<>> THEN <<".">> ELSE body

-----------------------------------------------------------------------------
(* net/url: Parse and URL.String *)

URLOf(scheme, opaque, host, path, rawQuery, forceQuery) ==
    [err |-> FALSE, Scheme |-> scheme, Opaque |-> opaque, Host |-> host,
     Path |-> path, RawQuery |-> rawQuery, ForceQuery |-> forceQuery]

NoURL == URLOf(<<>>, <<>>, <<>>, <<>>, <<>>, FALSE)

ParseError == [NoURL EXCEPT !.err = TRUE]

\* getScheme: scheme = letter (letter | digit | + | - | .)* before the first ":"
RECURSIVE getSchemeAt(_, _)
getSchemeAt(rawURL, i) ==
    IF i > Len(rawURL) THEN [err |-> FALSE, scheme |-> <<>>, rest |-> rawURL]
    ELSE LET c == rawURL[i]
         IN  IF c \in Letters THEN getSchemeAt(rawURL, i + 1)
             ELSE IF c \in Digits \cup {"+", "-", "."}
                  THEN IF i = 1
                       THEN [err |-> FALSE, scheme |-> <<>>, rest |-> rawURL]
                       ELSE getSchemeAt(rawURL, i + 1)
             ELSE IF c = ":"
                  THEN IF i = 1
                       THEN [err |-> TRUE, scheme |-> <<>>, rest |-> <<>>]
                       ELSE [err |-> FALSE, scheme |-> SubSeq(rawURL, 1, i - 1),
                             rest |-> SubSeq(rawURL, i + 1, Len(rawURL))]
             ELSE [err |-> FALSE, scheme |-> <<>>, rest |-> rawURL]

getScheme(rawURL) == getSchemeAt(rawURL, 1)

\* validOptionalPort: "" or ":" followed by digits
validOptionalPort(port) ==
    port = <<>> \/ (port[1] = ":" /\ \A i \in 2..Len(port) : port[i] \in Digits)

\* parseHost: a host with a colon must end in a valid port
validHost(host) ==
    LET colon == LastIndexByte(host, ":")
    IN  colon = 0 \/ validOptionalPort(SubSeq(host, colon, Len(host)))

\* url.Parse
Parse(rawURL) ==
    LET gs == getScheme(rawURL)
        q == IndexByte(gs.rest, "?")
        forceQuery == q > 0 /\ q = Len(gs.rest)
        rest == IF q = 0 THEN gs.rest ELSE SubSeq(gs.rest, 1, q - 1)
        rawQuery == IF q = 0 \/ forceQuery THEN <<>>
                    ELSE SubSeq(gs.rest, q + 1, Len(gs.rest))
        slash == IndexByte(SubSeq(rest, 3, Len(rest)), "/")
        authority == IF slash = 0 THEN SubSeq(rest, 3, Len(rest))
                     ELSE SubSeq(rest, 3, slash + 1)
        afterAuth == IF slash = 0 THEN <<>> ELSE SubSeq(rest, slash + 2, Len(rest))
    IN  IF gs.err THEN ParseError
        ELSE IF ~HasPrefix(rest, <<"/">>) /\ gs.scheme # <<>>
             THEN URLOf(gs.scheme, rest, <<>>, <<>>, rawQuery, forceQuery)
        ELSE IF ~HasPrefix(rest, <<"/">>)
                /\ IndexByte(SplitSlash(rest)[1], ":") > 0
             THEN ParseError
        ELSE IF HasPrefix(rest, <<"/", "/">>)
                /\ (gs.scheme # <<>> \/ ~HasPrefix(rest, <<"/", "/", "/">>))
             THEN IF validHost(authority)
                  THEN URLOf(gs.scheme, <<>>, authority, afterAuth, rawQuery, forceQuery)
                  ELSE ParseError
        ELSE URLOf(gs.scheme, <<>>, <<>>, rest, rawQuery, forceQuery)

\* (*URL).String
URLString(url) ==
    LET scheme == IF url.Scheme # <<>> THEN url.Scheme \o <<":">> ELSE <<>>
        slashes == IF (url.Scheme # <<>> \/ url.Host # <<>>)
                      /\ (url.Host # <<>> \/ url.Path # <<>>)
                   THEN <<"/", "/">> ELSE <<>>
        sep == IF url.Path # <<>> /\ url.Path[1] # "/" /\ url.Host # <<>>
               THEN <<"/">> ELSE <<>>
        dot == IF url.Scheme = <<>> /\ url.Host = <<>>
                  /\ IndexByte(SplitSlash(url.Path)[1], ":") > 0
               THEN <<".", "/">> ELSE <<>>
        body == IF url.Opaque # <<>> THEN url.Opaque
                ELSE slashes \o url.Host \o sep \o dot \o url.Path
        query == IF url.ForceQuery \/ url.RawQuery # <<>>
                 THEN <<"?">> \o url.RawQuery ELSE <<>>
    IN  scheme \o body \o query

-----------------------------------------------------------------------------
(* The metrics proxy: configuration and requests *)

\* the fixed mount path, "/v1/internal/ui/metrics-proxy"
MountPrefix ==
    <<"/", "v", "1", "/", "i", "n", "t", "e", "r", "n", "a", "l", "/", "u", "i",
      "/", "m", "e", "t", "r", "i", "c", "s", "-", "p", "r", "o", "x", "y">>

\* "http://backend:9090"
Backend ==
    <<"h", "t", "t", "p", ":", "/", "/", "b", "a", "c", "k", "e", "n", "d", ":",
      "9", "0", "9", "0">>

\* "http://backend:9090/metrics"
BackendMetrics == Backend \o <<"/", "m", "e", "t", "r", "i", "c", "s">>

\* the values of cfg.BaseURL: empty, without a path, with a path, with a path
\* ending in "/", and ":9090", which url.Parse rejects (missing scheme)
BaseURLs ==
    {<<>>, Backend, BackendMetrics, BackendMetrics \o <<"/">>,
     <<":", "9", "0", "9", "0">>}

\* s.metricsProxyCfg holds nothing until a config.UIMetricsProxy is stored
NothingStored == [stored |-> FALSE, BaseURL |-> <<>>]

Configs == {NothingStored} \cup {[stored |-> TRUE, BaseURL |-> b] : b \in BaseURLs}

PathAlphabet == {"/", ".", "s", "?"}

\* sub-paths of the scenarios: "/cpu", "/../../secret", "/api/v1/query"
ScenarioSubPaths ==
    {<<"/", "c", "p", "u">>,
     <<"/", ".", ".", "/", ".", ".", "/", "s", "e", "c", "r", "e", "t">>,
     <<"/", "a", "p", "i", "/", "v", "1", "/", "q", "u", "e", "r", "y">>}

\* what follows the mount prefix in an inbound path: nothing, or "/" and more
SubPaths ==
    {<<>>} \cup {<<"/">> \o s : s \in SeqsUpTo(PathAlphabet, MaxSubPathLen)}
           \cup ScenarioSubPaths

\* req.URL.RawQuery: none, or "q=up"
RawQueries == {<<>>, <<"q", "=", "u", "p">>}

Requests == [Path : {MountPrefix \o s : s \in SubPaths}, RawQuery : RawQueries]

NoRequest == [Path |-> <<>>, RawQuery |-> <<>>]

-----------------------------------------------------------------------------
(* HTTPHandlers.UIMetricsProxy *)

IsUIEnabled == uiEnabled

\* s.metricsProxyCfg.Load()
LoadMetricsProxyCfg == metricsProxyCfg

\* only the type assertion is checked, an empty BaseURL passes
ProxyConfiguredStoredOnly(c) == c.stored

\* the handler goes on when the type assertion succeeded and BaseURL is set
ProxyConfigured(c) == c.stored /\ c.BaseURL # <<>>

\* the mount prefix is trimmed together with the "/" after it
SubPathOfWithoutSlash(r) == TrimPrefix(r.Path, MountPrefix \o <<"/">>)

\* subPath := strings.TrimPrefix(req.URL.Path, "/v1/internal/ui/metrics-proxy")
SubPathOf(r) == TrimPrefix(r.Path, MountPrefix)

\* newURL := cfg.BaseURL + subPath
NewURL(c, r) == c.BaseURL \o SubPathOf(r)

\* u.Path = path.Clean(u.Path)
CleanURL(url) == [url EXCEPT !.Path = Clean(url.Path)]

\* the configuration is loaded a second time for the check
CheckedBaseURLReloaded == LoadMetricsProxyCfg.BaseURL

\* the base URL the target is validated against: the local cfg's
CheckedBaseURL == cfg.BaseURL

\* the prefix check is applied to the URL string before normalization
TargetWithinBaseUnnormalized == HasPrefix(NewURL(cfg, req), CheckedBaseURL)

\* strings.HasPrefix(u.String(), cfg.BaseURL)
TargetWithinBase == HasPrefix(URLString(u), CheckedBaseURL)

\* Director: r.URL = u.  The outgoing URL is u as it stands.
Director(r, url) == url

\* Entry: the UI check, the one Load of the configuration, the configured check.
Begin(r) ==
    /\ pc = "idle"
    /\ req' = r
    /\ cfgSeen' = metricsProxyCfg
    /\ u' = NoURL
    /\ contacted' = FALSE
    /\ target' = <<>>
    /\ IF ~IsUIEnabled
       THEN /\ cfg' = NothingStored
            /\ loads' = 0
            /\ result' = "NotFound"
            /\ pc' = "done"
       ELSE /\ cfg' = LoadMetricsProxyCfg
            /\ loads' = 1
            /\ IF ProxyConfigured(cfg')
               THEN result' = "none" /\ pc' = "loaded"
               ELSE result' = "NotFound" /\ pc' = "done"
    /\ UNCHANGED <<uiEnabled, metricsProxyCfg>>
    /\ UNCHANGED aggVars
    /\ UNCHANGED fetchVars

\* Build the target: trim, concatenate, parse, clean.
Build ==
    /\ pc = "loaded"
    /\ LET parsed == Parse(NewURL(cfg, req))
       IN  IF parsed.err
           THEN u' = u /\ result' = "BadRequest" /\ pc' = "done"
           ELSE u' = CleanURL(parsed) /\ result' = result /\ pc' = "built"
    /\ UNCHANGED <<uiEnabled, metricsProxyCfg, req, cfg, contacted, target, loads,
                   cfgSeen>>
    /\ UNCHANGED aggVars
    /\ UNCHANGED fetchVars

\* The prefix check.
Check ==
    /\ pc = "built"
    /\ IF TargetWithinBase
       THEN result' = result /\ pc' = "checked"
       ELSE result' = "BadRequest" /\ pc' = "done"
    /\ UNCHANGED <<uiEnabled, metricsProxyCfg, req, cfg, u, contacted, target,
                   loads, cfgSeen>>
    /\ UNCHANGED aggVars
    /\ UNCHANGED fetchVars

\* proxy.ServeHTTP(resp, req): the Director rewrites the URL, the backend is
\* contacted there.
Forward ==
    /\ pc = "checked"
    /\ contacted' = TRUE
    /\ target' = URLString(Director(req, u))
    /\ result' = "OK"
    /\ pc' = "done"
    /\ UNCHANGED <<uiEnabled, metricsProxyCfg, req, cfg, u, loads, cfgSeen>>
    /\ UNCHANGED aggVars
    /\ UNCHANGED fetchVars

\* The handler has returned; its locals are gone, the next request can come.
Respond ==
    /\ pc = "done"
    /\ pc' = "idle"
    /\ req' = NoRequest
    /\ cfg' = NothingStored
    /\ u' = NoURL
    /\ result' = "none"
    /\ contacted' = FALSE
    /\ target' = <<>>
    /\ loads' = 0
    /\ cfgSeen' = NothingStored
    /\ UNCHANGED <<uiEnabled, metricsProxyCfg>>
    /\ UNCHANGED aggVars
    /\ UNCHANGED fetchVars

\* A configuration reload stores a new value, at any moment.
Reload(c) ==
    /\ c # metricsProxyCfg
    /\ metricsProxyCfg' = c
    /\ UNCHANGED <<uiEnabled, pc, req, cfg, u, result, contacted, target, loads,
                   cfgSeen>>
    /\ UNCHANGED aggVars
    /\ UNCHANGED fetchVars

ProxyInit ==
    /\ uiEnabled \in BOOLEAN
    /\ metricsProxyCfg \in Configs
    /\ pc = "idle"
    /\ req = NoRequest
    /\ cfg = NothingStored
    /\ u = NoURL
    /\ result = "none"
    /\ contacted = FALSE
    /\ target = <<>>
    /\ loads = 0
    /\ cfgSeen = NothingStored

-----------------------------------------------------------------------------
(* The service aggregator: data *)

\* The strings the aggregator compares, in Go's string order (byte-wise).
StringOrder ==
    <<"a", "alpha", "b", "beta", "c", "db", "dev", "k8s", "n1", "n2", "nomad",
      "ops", "web">>

Rank(s) == CHOOSE i \in 1..Len(StringOrder) : StringOrder[i] = s

\* a < b on strings
StrLess(a, b) == Rank(a) < Rank(b)

ServiceKindTypical == ""

ServiceKindConnectProxy == "connect-proxy"

\* metaExternalSource
metaExternalSource == "external-source"

HealthPassing == "passing"

HealthWarning == "warning"

HealthCritical == "critical"

EntMeta(partition, namespace) == [Partition |-> partition, Namespace |-> namespace]

\* structs.ServiceID: a name and its enterprise meta (partition, namespace)
ServiceIDOf(id, entMeta) == [ID |-> id, EnterpriseMeta |-> entMeta]

\* Three service IDs; the two named "web" are ordered one way by partition and
\* the other way by namespace.
DbID == ServiceIDOf("db", EntMeta("alpha", "dev"))

WebAlphaID == ServiceIDOf("web", EntMeta("alpha", "ops"))

WebBetaID == ServiceIDOf("web", EntMeta("beta", "dev"))

\* map[string]string values of NodeService.Meta
NoMeta == [k \in {} |-> ""]

MetaOf(key, value) == [k \in {key} |-> value]

MetaGet(meta, key) == IF key \in DOMAIN meta THEN meta[key] ELSE ""

\* csn.Service == nil
NoService ==
    [present |-> FALSE, Service |-> "", EnterpriseMeta |-> EntMeta("", ""),
     Kind |-> ServiceKindTypical, Tags |-> <<>>, Meta |-> NoMeta,
     Proxy |-> [DestinationServiceName |-> ""]]

\* a *structs.NodeService
NodeService(sid, kind, dest, tags, meta) ==
    [present |-> TRUE, Service |-> sid.ID, EnterpriseMeta |-> sid.EnterpriseMeta,
     Kind |-> kind, Tags |-> tags, Meta |-> meta,
     Proxy |-> [DestinationServiceName |-> dest]]

\* the instance shapes of the dumps: what the kind, the proxy destination, the
\* tags and the meta of an instance can be
InstanceShapes ==
    {[Kind |-> ServiceKindConnectProxy, Dest |-> "web", Tags |-> <<"b", "a">>,
      Meta |-> MetaOf(metaExternalSource, "nomad")],
     [Kind |-> ServiceKindConnectProxy, Dest |-> "db", Tags |-> <<"c", "b", "b">>,
      Meta |-> MetaOf(metaExternalSource, "k8s")],
     [Kind |-> ServiceKindTypical, Dest |-> "db", Tags |-> <<>>,
      Meta |-> MetaOf("version", "k8s")]}

InstanceIDs == {DbID, WebBetaID}

Instances ==
    {NodeService(sid, sh.Kind, sh.Dest, sh.Tags, sh.Meta) :
        sid \in InstanceIDs, sh \in InstanceShapes}

\* csn.GatewayService == nil
NoGatewayService ==
    [present |-> FALSE, Service |-> ServiceIDOf("", EntMeta("", "")),
     Yield |-> <<>>]

\* A *structs.GatewayService: the service it is associated with, and the list
\* its Addresses method yields for the DNS names it is handed.
GatewayService(sid, yield) == [present |-> TRUE, Service |-> sid, Yield |-> yield]

GatewayServices ==
    {GatewayService(WebAlphaID, <<"b:8443", "a:8443", "b:8443">>),
     GatewayService(DbID, <<"c:8443", "b:8443">>)}

NodeNames == {"n1", "n2"}

\* The nodes of the dumps with the health checks registered on them; the last
\* but one status is none of the three that are counted.
NodesWithChecks ==
    {[Node |-> [Node |-> "n1"], Checks |-> <<>>],
     [Node |-> [Node |-> "n2"],
      Checks |-> <<HealthCritical, HealthPassing, "maintenance", HealthPassing>>]}

\* structs.CheckServiceNode values of a dump
CheckServiceNode(nc, service, gwsvc) ==
    [Node |-> nc.Node, Service |-> service, Checks |-> nc.Checks,
     GatewayService |-> gwsvc]

DumpRecords ==
    {CheckServiceNode(nc, service, gwsvc) :
        nc \in NodesWithChecks,
        service \in {NoService} \cup Instances,
        gwsvc \in {NoGatewayService} \cup GatewayServices}

Dumps == UNION {[1..n -> DumpRecords] : n \in 0..MaxDumpLen}

-----------------------------------------------------------------------------
(* The service aggregator: summarizeServices *)

\* ServiceID.LessThan: by name, then partition, then namespace
LessThan(a, b) ==
    \/ StrLess(a.ID, b.ID)
    \/ /\ a.ID = b.ID
       /\ \/ StrLess(a.EnterpriseMeta.Partition, b.EnterpriseMeta.Partition)
          \/ /\ a.EnterpriseMeta.Partition = b.EnterpriseMeta.Partition
             /\ StrLess(a.EnterpriseMeta.Namespace, b.EnterpriseMeta.Namespace)

\* sort.Strings
RECURSIVE SortStrings(_)
SortStrings(s) ==
    IF s = <<>> THEN <<>>
    ELSE LET rest == SortStrings(Tail(s))
             x == Head(s)
             k == Cardinality({i \in 1..Len(rest) : StrLess(rest[i], x)})
         IN  SubSeq(rest, 1, k) \o <<x>> \o SubSeq(rest, k + 1, Len(rest))

\* sort.Slice(services, LessThan)
RECURSIVE SortServices(_)
SortServices(s) ==
    IF s = <<>> THEN <<>>
    ELSE LET rest == SortServices(Tail(s))
             x == Head(s)
             k == Cardinality({i \in 1..Len(rest) : LessThan(rest[i], x)})
         IN  SubSeq(rest, 1, k) \o <<x>> \o SubSeq(rest, k + 1, Len(rest))

\* the summary is created with InstanceCount 1
NewSummaryCountingOne(service) ==
    [Kind |-> ServiceKindTypical, Name |-> service.ID, Tags |-> <<>>,
     Nodes |-> <<>>, InstanceCount |-> 1, ProxyFor |-> <<>>, proxyForSet |-> {},
     ChecksPassing |-> 0, ChecksWarning |-> 0, ChecksCritical |-> 0,
     ExternalSources |-> <<>>, externalSourceSet |-> {},
     GatewayConfig |-> [Addresses |-> <<>>, addressesSet |-> {}],
     EnterpriseMeta |-> service.EnterpriseMeta]

\* &ServiceSummary{Name: service.ID, EnterpriseMeta: ..., InstanceCount: 0}
NewSummary(service) ==
    [Kind |-> ServiceKindTypical, Name |-> service.ID, Tags |-> <<>>,
     Nodes |-> <<>>, InstanceCount |-> 0, ProxyFor |-> <<>>, proxyForSet |-> {},
     ChecksPassing |-> 0, ChecksWarning |-> 0, ChecksCritical |-> 0,
     ExternalSources |-> <<>>, externalSourceSet |-> {},
     GatewayConfig |-> [Addresses |-> <<>>, addressesSet |-> {}],
     EnterpriseMeta |-> service.EnterpriseMeta]

\* The working state of one call: st.services and st.summary.
\* getService: the summary of service, created and registered on first access.
getService(st, service) ==
    IF service \in DOMAIN st.summary THEN st
    ELSE [services |-> Append(st.services, service),
          summary |-> st.summary @@ (service :> NewSummary(service))]

\* one address of the range loop over gwsvc.Addresses(dnsAddresses)
AddAddress(gc, addr) ==
    IF addr \notin gc.addressesSet
    THEN [Addresses |-> Append(gc.Addresses, addr),
          addressesSet |-> gc.addressesSet \cup {addr}]
    ELSE gc

RECURSIVE AddAddresses(_, _)
AddAddresses(gc, addrs) ==
    IF addrs = <<>> THEN gc
    ELSE AddAddresses(AddAddress(gc, Head(addrs)), Tail(addrs))

\* modifySummaryForGatewayService.  The DNS names it builds are only handed to
\* gwsvc.Addresses; what that call yields is the Yield of the association.
modifySummaryForGatewayService(sum, gwsvc) ==
    [sum EXCEPT !.GatewayConfig = AddAddresses(sum.GatewayConfig, gwsvc.Yield)]

\* every tag is appended, seen before or not
AddTagUnchecked(tags, tag) == Append(tags, tag)

\* one tag of the range loop over svc.Tags: a linear scan, then the append
AddTag(tags, tag) ==
    IF \E i \in 1..Len(tags) : tags[i] = tag THEN tags ELSE Append(tags, tag)

RECURSIVE AddTags(_, _)
AddTags(tags, new) ==
    IF new = <<>> THEN tags ELSE AddTags(AddTag(tags, Head(new)), Tail(new))

\* the proxyForSet accounting
AddProxyFor(sum, svc) ==
    IF svc.Kind = ServiceKindConnectProxy
       /\ svc.Proxy.DestinationServiceName \notin sum.proxyForSet
    THEN [sum EXCEPT
            !.proxyForSet = @ \cup {svc.Proxy.DestinationServiceName},
            !.ProxyFor = Append(@, svc.Proxy.DestinationServiceName)]
    ELSE sum

\* the externalSourceSet accounting
AddExternalSource(sum, svc) ==
    LET source == MetaGet(svc.Meta, metaExternalSource)
    IN  IF DOMAIN svc.Meta # {} /\ source # "" /\ source \notin sum.externalSourceSet
        THEN [sum EXCEPT !.externalSourceSet = @ \cup {source},
                         !.ExternalSources = Append(@, source)]
        ELSE sum

\* the range loop over csn.Checks
RECURSIVE CountChecks(_, _)
CountChecks(sum, checks) ==
    IF checks = <<>> THEN sum
    ELSE LET status == Head(checks)
             next == IF status = HealthPassing
                     THEN [sum EXCEPT !.ChecksPassing = @ + 1]
                     ELSE IF status = HealthWarning
                     THEN [sum EXCEPT !.ChecksWarning = @ + 1]
                     ELSE IF status = HealthCritical
                     THEN [sum EXCEPT !.ChecksCritical = @ + 1]
                     ELSE sum
         IN  CountChecks(next, Tail(checks))

\* the gateway part of the loop body
GatewayPart(st, csn) ==
    IF csn.GatewayService.present
    THEN LET sid == csn.GatewayService.Service
             st1 == getService(st, sid)
         IN  [st1 EXCEPT !.summary[sid] =
                 modifySummaryForGatewayService(@, csn.GatewayService)]
    ELSE st

\* the instance part of the loop body
InstancePart(st, csn) ==
    LET svc == csn.Service
        sid == ServiceIDOf(svc.Service, svc.EnterpriseMeta)
        st1 == getService(st, sid)
        sum0 == st1.summary[sid]
        sum1 == [sum0 EXCEPT !.Nodes = Append(@, csn.Node.Node),
                             !.Kind = svc.Kind,
                             !.InstanceCount = @ + 1]
        sum2 == AddProxyFor(sum1, svc)
        sum3 == [sum2 EXCEPT !.Tags = AddTags(@, svc.Tags)]
        sum4 == AddExternalSource(sum3, svc)
        sum5 == CountChecks(sum4, csn.Checks)
    IN  [st1 EXCEPT !.summary[sid] = sum5]

\* the checks of a record without an instance are counted for the summary of
\* its gateway association before the continue
ContinueCountingChecks(st, csn) ==
    IF csn.GatewayService.present
    THEN [st EXCEPT !.summary[csn.GatewayService.Service] =
             CountChecks(@, csn.Checks)]
    ELSE st

\* if csn.Service == nil { continue }
Continue(st, csn) == st

\* the body of the range loop over dump
ProcessRecord(st, csn) ==
    LET st1 == GatewayPart(st, csn)
    IN  IF ~csn.Service.present THEN Continue(st1, csn)
        ELSE InstancePart(st1, csn)

\* every list of the summary is sorted
SortAllLists(sum) ==
    [sum EXCEPT !.Nodes = SortStrings(@), !.Tags = SortStrings(@),
                !.ProxyFor = SortStrings(@), !.ExternalSources = SortStrings(@)]

\* sort.Strings(sum.Nodes); sort.Strings(sum.Tags)
SortNodesAndTags(sum) ==
    [sum EXCEPT !.Nodes = SortStrings(@), !.Tags = SortStrings(@)]

\* One iteration of the range loop over dump.
Scan ==
    /\ phase = "scan"
    /\ idx <= Len(dump)
    /\ LET st == ProcessRecord([services |-> services, summary |-> summary],
                               dump[idx])
       IN  services' = st.services /\ summary' = st.summary
    /\ idx' = idx + 1
    /\ UNCHANGED <<dump, output, phase>>
    /\ UNCHANGED proxyVars
    /\ UNCHANGED fetchVars

\* After the loop: sort the IDs, sort Nodes and Tags of each summary, return.
Return ==
    /\ phase = "scan"
    /\ idx > Len(dump)
    /\ services' = SortServices(services)
    /\ summary' = [sid \in DOMAIN summary |-> SortNodesAndTags(summary[sid])]
    /\ output' = [i \in 1..Cardinality(DOMAIN summary) |-> summary'[services'[i]]]
    /\ phase' = "done"
    /\ UNCHANGED <<dump, idx>>
    /\ UNCHANGED proxyVars
    /\ UNCHANGED fetchVars

NoSummaries == [sid \in {} |-> NewSummary(sid)]

\* summarizeServices is entered with a dump; its locals are empty.
AggInit ==
    /\ dump \in Dumps
    /\ idx = 1
    /\ services = <<>>
    /\ summary = NoSummaries
    /\ output = <<>>
    /\ phase = "scan"

-----------------------------------------------------------------------------
(* The RPC fetch of UINodes, UINodeInfo, UIServices, UIGatewayServicesNodes *)

\* Error messages are sequences of their parts.
NoError == <<>>

\* structs.ErrNoLeader.Error()
ErrNoLeader == <<"No cluster leader">>

\* the errors s.agent.RPC returns: no leader, bare or wrapped by the RPC layer,
\* and errors that do not mention it
RPCErrors ==
    {ErrNoLeader,
     <<"rpc error making call:", "No cluster leader">>,
     <<"Permission denied">>,
     <<"rpc error making call:", "ACL not found">>}

RPCOutcomes == {NoError} \cup RPCErrors

\* strings.Contains
Contains(s, substr) ==
    \E i \in 0..(Len(s) - Len(substr)) : SubSeq(s, i + 1, i + Len(substr)) = substr

Handlers == {"UINodes", "UINodeInfo", "UIServices", "UIGatewayServicesNodes"}

\* the handlers that take a name from the path and answer 400 without one
NamedHandlers == {"UINodeInfo", "UIGatewayServicesNodes"}

\* What a request parses to: whether s.parse already answered it (done),
\* whether the enterprise meta is rejected, the AllowStale of its query
\* options, and whether a name follows the handler's path prefix.
HTTPRequests ==
    [ParseDone : BOOLEAN, EntMetaErr : BOOLEAN, AllowStale : BOOLEAN,
     HasName : BOOLEAN]

NoHTTPRequest ==
    [ParseDone |-> FALSE, EntMetaErr |-> FALSE, AllowStale |-> FALSE,
     HasName |-> FALSE]

EntMetaError == <<"Bad request: invalid enterprise meta">>

\* The handler returns before the RPC: s.parse answered the request, the
\* enterprise meta was rejected, or the name is missing.
ReturnsBeforeRPC(h, r) ==
    r.ParseDone \/ r.EntMetaErr \/ (h \in NamedHandlers /\ ~r.HasName)

\* The error of a return before the RPC.  UIGatewayServicesNodes parses the
\* enterprise meta first, the other handlers call s.parse first.
ErrorBeforeRPC(h, r) ==
    IF h = "UIGatewayServicesNodes"
    THEN IF r.EntMetaErr THEN EntMetaError ELSE NoError
    ELSE IF ~r.ParseDone /\ r.EntMetaErr THEN EntMetaError ELSE NoError

\* every error is retried while stale reads are not allowed
ShouldRetryAnyError(err, a) == ~a.AllowStale

\* strings.Contains(err.Error(), structs.ErrNoLeader.Error()) && !args.AllowStale
ShouldRetry(err, a) == Contains(err, ErrNoLeader) /\ ~a.AllowStale

\* The handler parses its arguments and reaches the RPC label, or returns.
Enter(h, r) ==
    /\ fpc = "idle"
    /\ handler' = h
    /\ httpReq' = r
    /\ args' = [AllowStale |-> r.AllowStale]
    /\ rpcs' = <<>>
    /\ IF ReturnsBeforeRPC(h, r)
       THEN fpc' = "returned" /\ ferr' = ErrorBeforeRPC(h, r)
       ELSE fpc' = "RPC" /\ ferr' = NoError
    /\ UNCHANGED proxyVars
    /\ UNCHANGED aggVars

\* RPC: one s.agent.RPC call returns err (NoError: nil).  A retried call
\* sets args.AllowStale and goes back to the label; any other error is
\* returned; without an error the handler returns its result.
CallRPC(err) ==
    /\ fpc = "RPC"
    /\ rpcs' = Append(rpcs, [AllowStale |-> args.AllowStale, err |-> err])
    /\ IF err # NoError /\ ShouldRetry(err, args)
       THEN /\ args' = [args EXCEPT !.AllowStale = TRUE]
            /\ fpc' = "RPC"
            /\ ferr' = ferr
       ELSE /\ args' = args
            /\ fpc' = "returned"
            /\ ferr' = err
    /\ UNCHANGED <<handler, httpReq>>
    /\ UNCHANGED proxyVars
    /\ UNCHANGED aggVars

\* a handler is about to be called
FetchIdle ==
    /\ handler = "none"
    /\ httpReq = NoHTTPRequest
    /\ args = [AllowStale |-> FALSE]
    /\ fpc = "idle"
    /\ rpcs = <<>>
    /\ ferr = NoError

\* no handler with an RPC fetch is called
FetchOff ==
    /\ handler = "none"
    /\ httpReq = NoHTTPRequest
    /\ args = [AllowStale |-> FALSE]
    /\ fpc = "off"
    /\ rpcs = <<>>
    /\ ferr = NoError

-----------------------------------------------------------------------------
(* Specifications *)

vars == <<proxyVars, aggVars, fetchVars>>

\* no call of summarizeServices
AggOff ==
    /\ dump = <<>>
    /\ idx = 1
    /\ services = <<>>
    /\ summary = NoSummaries
    /\ output = <<>>
    /\ phase = "off"

\* no request to the metrics proxy
ProxyOff ==
    /\ uiEnabled = FALSE
    /\ metricsProxyCfg = NothingStored
    /\ pc = "off"
    /\ req = NoRequest
    /\ cfg = NothingStored
    /\ u = NoURL
    /\ result = "none"
    /\ contacted = FALSE
    /\ target = <<>>
    /\ loads = 0
    /\ cfgSeen = NothingStored

Init == ProxyInit /\ AggOff /\ FetchOff

Next ==
    \/ \E r \in Requests : Begin(r)
    \/ Build
    \/ Check
    \/ Forward
    \/ Respond
    \/ \E c \in Configs : Reload(c)

\* The metrics proxy: one handler and the configuration reloads.
Spec == Init /\ [][Next]_vars

SummarizeInit == ProxyOff /\ AggInit /\ FetchOff

SummarizeNext ==
    \/ Scan
    \/ Return

\* summarizeServices on every dump of Dumps.
SummarizeSpec == SummarizeInit /\ [][SummarizeNext]_vars

FetchInit == ProxyOff /\ AggOff /\ FetchIdle

FetchNext ==
    \/ \E h \in Handlers, r \in HTTPRequests : Enter(h, r)
    \/ \E err \in RPCOutcomes : CallRPC(err)

\* One call of a handler with an RPC fetch; every s.agent.RPC call returns.
FetchSpec ==
    /\ FetchInit
    /\ [][FetchNext]_vars
    /\ WF_vars(\E err \in RPCOutcomes : CallRPC(err))

-----------------------------------------------------------------------------
(* Properties of the metrics proxy *)

\* the target URL string the algorithm derives from a base URL and a request:
\* concatenate, parse, normalize the path, re-stringify
NormalizedTarget(base, r) ==
    URLString(CleanURL(Parse(base \o TrimPrefix(r.Path, MountPrefix))))

Parses(base, r) == ~Parse(base \o TrimPrefix(r.Path, MountPrefix)).err

\* the invocation got past the UI check and loaded a configured snapshot
Configured == pc # "idle" /\ uiEnabled /\ cfgSeen.stored /\ cfgSeen.BaseURL # <<>>

SecretSubPath == <<"/", ".", ".", "/", ".", ".", "/", "s", "e", "c", "r", "e", "t">>

CpuSubPath == <<"/", "c", "p", "u">>

QuerySubPath == <<"/", "a", "p", "i", "/", "v", "1", "/", "q", "u", "e", "r", "y">>

\* C1: a request reaches the reverse proxy only if the re-stringified,
\* path-normalized target begins with the configured base URL string; when the
\* normalized target does not begin with it, the handler ends with BadRequest
\* and the backend is never contacted.
C1_ForwardOnlyWithinBase ==
    /\ (pc = "checked" \/ contacted) =>
          /\ Configured
          /\ Parses(cfgSeen.BaseURL, req)
          /\ HasPrefix(NormalizedTarget(cfgSeen.BaseURL, req), cfgSeen.BaseURL)
    /\ contacted => HasPrefix(target, cfgSeen.BaseURL)
    /\ (Configured /\ Parses(cfgSeen.BaseURL, req)
          /\ ~HasPrefix(NormalizedTarget(cfgSeen.BaseURL, req), cfgSeen.BaseURL)) =>
          /\ ~contacted
          /\ pc = "done" => result = "BadRequest"

\* C1 witness: a target that normalization moved out of the base URL was
\* rejected after the prefix check.
C1_Witness ==
    /\ pc = "done" /\ Configured /\ cfgSeen.BaseURL = BackendMetrics
    /\ Parses(cfgSeen.BaseURL, req)
    /\ ~HasPrefix(NormalizedTarget(cfgSeen.BaseURL, req), cfgSeen.BaseURL)
    /\ result = "BadRequest" /\ ~contacted

Scenario(base, sub) ==
    /\ pc = "done" /\ Configured
    /\ cfgSeen.BaseURL = base
    /\ req.Path = MountPrefix \o sub

\* C2 as stated: base URL http://backend:9090 and sub-path /../../secret end
\* with BadRequest and the backend is never contacted.
C2_Original ==
    Scenario(Backend, SecretSubPath) => result = "BadRequest" /\ ~contacted

\* C2 as amended: with base URL http://backend:9090 and sub-path /../../secret
\* normalization gives http://backend:9090/secret, which begins with the base
\* URL, so the request is forwarded there; with base URL
\* http://backend:9090/metrics the same sub-path fails the prefix check:
\* BadRequest, backend never contacted.
C2_TraversalStaysUnderPathlessBase ==
    /\ Scenario(Backend, SecretSubPath) =>
          /\ result = "OK" /\ contacted
          /\ target = Backend \o <<"/", "s", "e", "c", "r", "e", "t">>
    /\ Scenario(BackendMetrics, SecretSubPath) =>
          result = "BadRequest" /\ ~contacted

\* C2 witness: the traversal request under the path-less base URL was handled.
C2_Witness == Scenario(Backend, SecretSubPath) /\ contacted

\* C3 as stated: base URL http://backend:9090/metrics and sub-path /cpu are
\* forwarded to http://backend:9090/metricscpu.
C3_Original ==
    Scenario(BackendMetrics, CpuSubPath) =>
        contacted /\ target = BackendMetrics \o <<"c", "p", "u">>

\* C3 as amended: base URL http://backend:9090/metrics and sub-path /cpu are
\* forwarded to http://backend:9090/metrics/cpu, the literal concatenation of
\* base URL and sub-path (the sub-path brings its own leading "/").
C3_LiteralConcatenation ==
    Scenario(BackendMetrics, CpuSubPath) =>
        /\ result = "OK" /\ contacted
        /\ target = BackendMetrics \o CpuSubPath
        /\ target = <<"h", "t", "t", "p", ":", "/", "/", "b", "a", "c", "k", "e",
                      "n", "d", ":", "9", "0", "9", "0", "/", "m", "e", "t", "r",
                      "i", "c", "s", "/", "c", "p", "u">>

\* C3 witness: the /cpu request under http://backend:9090/metrics was forwarded.
C3_Witness == Scenario(BackendMetrics, CpuSubPath) /\ contacted

\* C4: inbound /<mount>/api/v1/query?q=up with base URL http://backend:9090 is
\* forwarded to http://backend:9090/api/v1/query?q=up: the inbound query is
\* part of the forwarded target.
C4_QueryForwarded ==
    (Scenario(Backend, QuerySubPath) /\ req.RawQuery = <<"q", "=", "u", "p">>) =>
        /\ contacted
        /\ target = Backend \o QuerySubPath \o <<"?", "q", "=", "u", "p">>

\* C5: with the UI disabled, or with nothing stored or an empty base URL in the
\* loaded configuration, every request ends with NotFound at once: no target
\* URL is built or checked and the backend is not contacted.
C5_NotFoundWhenDisabledOrUnconfigured ==
    (pc # "idle" /\ (~uiEnabled \/ ~cfgSeen.stored \/ cfgSeen.BaseURL = <<>>)) =>
        /\ pc = "done"
        /\ result = "NotFound"
        /\ u = NoURL
        /\ ~contacted

\* C5 witness: a request with a sub-path ended with NotFound because the stored
\* base URL is empty, with the UI enabled.
C5_Witness ==
    /\ pc = "done" /\ uiEnabled /\ cfgSeen.stored /\ cfgSeen.BaseURL = <<>>
    /\ req.Path = MountPrefix \o CpuSubPath
    /\ result = "NotFound"

\* C6: an invocation never loads the configuration twice; once past the UI
\* check it has loaded it exactly once, at its start, and that one snapshot
\* decides the enabled check, the target, the prefix check and the forward,
\* whatever reloads happen in between.
C6_OneSnapshotPerRequest ==
    /\ loads <= 1
    /\ (pc # "idle" /\ uiEnabled) => loads = 1 /\ cfg = cfgSeen
    /\ pc \in {"loaded", "built", "checked"} => Configured
    /\ pc \in {"built", "checked"} =>
          u = CleanURL(Parse(cfgSeen.BaseURL \o TrimPrefix(req.Path, MountPrefix)))
    /\ pc = "checked" =>
          HasPrefix(NormalizedTarget(cfgSeen.BaseURL, req), cfgSeen.BaseURL)
    /\ contacted =>
          /\ target = NormalizedTarget(cfgSeen.BaseURL, req)
          /\ HasPrefix(target, cfgSeen.BaseURL)
    /\ (pc = "done" /\ Configured) =>
          result = IF Parses(cfgSeen.BaseURL, req)
                      /\ HasPrefix(NormalizedTarget(cfgSeen.BaseURL, req),
                                   cfgSeen.BaseURL)
                   THEN "OK" ELSE "BadRequest"

\* C6 witness: a request was forwarded under its snapshot although a reload in
\* between stored a base URL the target does not begin with.
C6_Witness ==
    /\ contacted /\ result = "OK"
    /\ metricsProxyCfg.stored /\ metricsProxyCfg # cfg
    /\ ~HasPrefix(target, metricsProxyCfg.BaseURL)

-----------------------------------------------------------------------------
(* Properties of the service aggregator *)

\* the ServiceID of the direct instance of a record
InstanceID(csn) == ServiceIDOf(csn.Service.Service, csn.Service.EnterpriseMeta)

\* the ServiceID a summary stands for
SummaryID(sum) == ServiceIDOf(sum.Name, sum.EnterpriseMeta)

\* the first n records of the dump that carry a direct instance of sid
InstanceRecords(sid, n) ==
    {k \in 1..n : dump[k].Service.present /\ InstanceID(dump[k]) = sid}

\* the first n records of the dump that carry a gateway association of sid
GatewayRecords(sid, n) ==
    {k \in 1..n : dump[k].GatewayService.present
                  /\ dump[k].GatewayService.Service = sid}

NoDuplicates(s) == \A i, j \in 1..Len(s) : i # j => s[i] # s[j]

Sorted(s) == \A i, j \in 1..Len(s) : i < j => ~StrLess(s[j], s[i])

\* s without the later occurrences of its values
RECURSIVE FirstSeen(_)
FirstSeen(s) ==
    IF s = <<>> THEN <<>>
    ELSE LET front == FirstSeen(SubSeq(s, 1, Len(s) - 1))
             x == s[Len(s)]
         IN  IF \E i \in 1..Len(front) : front[i] = x THEN front
             ELSE Append(front, x)

\* what record csn offers to the named list of the summary of sid
Offered(csn, field, sid) ==
    IF field = "Addresses"
    THEN IF csn.GatewayService.present /\ csn.GatewayService.Service = sid
         THEN csn.GatewayService.Yield ELSE <<>>
    ELSE IF ~csn.Service.present \/ InstanceID(csn) # sid THEN <<>>
    ELSE IF field = "ProxyFor"
    THEN IF csn.Service.Kind = ServiceKindConnectProxy
         THEN <<csn.Service.Proxy.DestinationServiceName>> ELSE <<>>
    ELSE IF field = "ExternalSources"
    THEN IF metaExternalSource \in DOMAIN csn.Service.Meta
            /\ csn.Service.Meta[metaExternalSource] # ""
         THEN <<csn.Service.Meta[metaExternalSource]>> ELSE <<>>
    ELSE <<>>

\* what the first n records of the dump offer, in input order
RECURSIVE OfferedUpTo(_, _, _)
OfferedUpTo(field, sid, n) ==
    IF n = 0 THEN <<>>
    ELSE OfferedUpTo(field, sid, n - 1) \o Offered(dump[n], field, sid)

\* the ServiceIDs seen in the dump, as instance or as gateway association
SeenIDs ==
    {InstanceID(dump[k]) : k \in {i \in 1..Len(dump) : dump[i].Service.present}}
    \cup {dump[k].GatewayService.Service :
            k \in {i \in 1..Len(dump) : dump[i].GatewayService.present}}

\* C7: InstanceCount of every summary is the number of records with a direct
\* instance of the summary's ServiceID; gateway associations add nothing.
C7_InstanceCount ==
    /\ phase = "scan" =>
          \A sid \in DOMAIN summary :
              summary[sid].InstanceCount = Cardinality(InstanceRecords(sid, idx - 1))
    /\ phase = "done" =>
          \A i \in 1..Len(output) :
              output[i].InstanceCount =
                  Cardinality(InstanceRecords(SummaryID(output[i]), Len(dump)))

\* C7 witness: a returned list with a summary of two instances and a summary
\* that only gateway associations created, with InstanceCount 0.
C7_Witness ==
    /\ phase = "done"
    /\ \E i, j \in 1..Len(output) :
          /\ output[i].InstanceCount = 2
          /\ output[j].InstanceCount = 0
          /\ GatewayRecords(SummaryID(output[j]), Len(dump)) # {}
          /\ \E k \in GatewayRecords(SummaryID(output[j]), Len(dump)) :
                dump[k].Service.present

\* C8: Tags, ProxyFor, ExternalSources and GatewayConfig.Addresses of every
\* summary hold no value twice; Nodes holds one entry per instance record, a
\* node as often as it has instances of the service.
C8_Dedup ==
    LET ok(sum, n) ==
            /\ NoDuplicates(sum.Tags)
            /\ NoDuplicates(sum.ProxyFor)
            /\ NoDuplicates(sum.ExternalSources)
            /\ NoDuplicates(sum.GatewayConfig.Addresses)
            /\ \A node \in NodeNames :
                  Cardinality({i \in 1..Len(sum.Nodes) : sum.Nodes[i] = node}) =
                  Cardinality({k \in InstanceRecords(SummaryID(sum), n) :
                                  dump[k].Node.Node = node})
    IN  /\ \A sid \in DOMAIN summary : ok(summary[sid], idx - 1)
        /\ \A i \in 1..Len(output) : ok(output[i], Len(dump))

\* C8 witness: a returned summary whose Nodes repeats a node and whose Tags
\* came from instances that repeat tags, and one whose Addresses came from a
\* yield that repeats an address.
C8_Witness ==
    /\ phase = "done"
    /\ \E i, j \in 1..Len(output) :
          /\ output[i].Nodes = <<"n2", "n2">>
          /\ output[i].Tags = <<"b", "c">>
          /\ output[i].ProxyFor = <<"db">>
          /\ output[j].GatewayConfig.Addresses = <<"b:8443", "a:8443">>

\* C9: the returned list has one summary per ServiceID seen, in ServiceID
\* order; Nodes and Tags of each are sorted; ProxyFor, ExternalSources and
\* Addresses are in the order their values were first seen in the input.
C9_Order ==
    phase = "done" =>
        /\ Len(output) = Cardinality(SeenIDs)
        /\ {SummaryID(output[i]) : i \in 1..Len(output)} = SeenIDs
        /\ \A i \in 1..(Len(output) - 1) :
              LessThan(SummaryID(output[i]), SummaryID(output[i + 1]))
        /\ \A i \in 1..Len(output) :
              LET sum == output[i]
                  sid == SummaryID(sum)
                  n == Len(dump)
              IN  /\ Sorted(sum.Nodes)
                  /\ Sorted(sum.Tags)
                  /\ sum.ProxyFor = FirstSeen(OfferedUpTo("ProxyFor", sid, n))
                  /\ sum.ExternalSources =
                         FirstSeen(OfferedUpTo("ExternalSources", sid, n))
                  /\ sum.GatewayConfig.Addresses =
                         FirstSeen(OfferedUpTo("Addresses", sid, n))

\* C9 witness: three summaries returned in an order that is not the order they
\* were created in, with nodes given in descending order, and ProxyFor,
\* ExternalSources and Addresses left in an insertion order that is not sorted.
C9_Witness ==
    /\ phase = "done"
    /\ Len(output) = 3
    /\ Len(dump) = 2
    /\ dump[1].GatewayService.Service = WebAlphaID
    /\ dump[1].Node.Node = "n2"
    /\ \E i, j \in 1..3 :
          /\ output[i].Nodes = <<"n1", "n2">>
          /\ output[i].ProxyFor = <<"web", "db">>
          /\ output[i].ExternalSources = <<"nomad", "k8s">>
          /\ output[j].GatewayConfig.Addresses = <<"c:8443", "b:8443">>

\* a summary as getService creates it for sid
Fresh(sum, sid) ==
    /\ sum.Name = sid.ID /\ sum.EnterpriseMeta = sid.EnterpriseMeta
    /\ sum.Kind = "" /\ sum.InstanceCount = 0
    /\ sum.Nodes = <<>> /\ sum.Tags = <<>>
    /\ sum.ProxyFor = <<>> /\ sum.ExternalSources = <<>>
    /\ sum.ChecksPassing = 0 /\ sum.ChecksWarning = 0 /\ sum.ChecksCritical = 0

SameButGatewayConfig(a, b) == [a EXCEPT !.GatewayConfig = b.GatewayConfig] = b

\* the loop is at a record with a gateway association and no direct instance
AtGatewayOnlyRecord ==
    /\ phase = "scan" /\ idx <= Len(dump)
    /\ dump[idx].GatewayService.present
    /\ ~dump[idx].Service.present

\* C10: processing a record with a gateway association and no direct instance
\* changes only GatewayConfig.Addresses of the summary of the association's
\* service, creating that summary if absent; everything else of every summary,
\* the check counters included, stays as it was.
C10_GatewayOnlyFrame ==
    [][(AtGatewayOnlyRecord /\ idx' = idx + 1) =>
         LET g == dump[idx].GatewayService.Service
         IN  /\ DOMAIN summary' = DOMAIN summary \cup {g}
             /\ \A sid \in DOMAIN summary \ {g} : summary'[sid] = summary[sid]
             /\ IF g \in DOMAIN summary
                THEN SameButGatewayConfig(summary[g], summary'[g])
                ELSE Fresh(summary'[g], g)
             /\ summary'[g].GatewayConfig.Addresses =
                    FirstSeen(OfferedUpTo("Addresses", g, idx))]_vars

\* C10 witness: a record with checks, a gateway association with addresses and
\* no direct instance has just been processed; the summary of its service has
\* the addresses and no instance, node or counted check.
C10_Witness ==
    /\ phase = "scan" /\ idx > 1
    /\ LET csn == dump[idx - 1]
           g == csn.GatewayService.Service
       IN  /\ csn.GatewayService.present /\ ~csn.Service.present
           /\ csn.Checks # <<>>
           /\ g \in DOMAIN summary
           /\ summary[g].GatewayConfig.Addresses = <<"c:8443", "b:8443">>
           /\ summary[g].InstanceCount = 0
           /\ summary[g].ChecksPassing = 0 /\ summary[g].ChecksCritical = 0

-----------------------------------------------------------------------------
(* Properties of the RPC fetch *)

NoLeader(err) == Contains(err, ErrNoLeader)

\* C11: the RPC fetch makes at most two attempts.  A second attempt is made
\* only after a no-leader error of a first attempt that did not allow stale
\* reads, and it allows them; any other error, and any error of the second
\* attempt, is what the handler returns at once; and the handler always
\* returns, also when every attempt reports no leader.
C11_AtMostOneRetry ==
    /\ [](/\ Len(rpcs) <= 2
          /\ Len(rpcs) = 2 =>
                /\ NoLeader(rpcs[1].err) /\ ~rpcs[1].AllowStale
                /\ rpcs[2].AllowStale
          /\ (fpc = "RPC" /\ rpcs # <<>>) =>
                /\ Len(rpcs) = 1
                /\ NoLeader(rpcs[1].err) /\ ~rpcs[1].AllowStale
                /\ args.AllowStale
          /\ (fpc = "RPC" /\ rpcs = <<>>) => args.AllowStale = httpReq.AllowStale
          /\ (fpc = "returned" /\ rpcs # <<>>) => ferr = rpcs[Len(rpcs)].err
          /\ (fpc = "returned" /\ Len(rpcs) = 1 /\ ~rpcs[1].AllowStale) =>
                ~NoLeader(rpcs[1].err))
    /\ [](fpc = "RPC" => <>(fpc = "returned"))

\* C11 witness: a handler whose request did not allow stale reads got no
\* leader from both attempts and returned after the second.
C11_Witness ==
    /\ fpc = "returned"
    /\ ~httpReq.AllowStale
    /\ Len(rpcs) = 2
    /\ NoLeader(rpcs[1].err) /\ NoLeader(rpcs[2].err)
    /\ ferr = rpcs[2].err

====
